---- MODULE Spec2Model ----
(***************************************************************************)
(* A model of the WebResolver API client (src/index.js).                   *)
(*                                                                         *)
(* A JavaScript string is a sequence of one-character strings, so that     *)
(* trimming, format checks, concatenation and query-string parsing are     *)
(* computed on the characters.  A JavaScript value is a record with a type *)
(* tag t, string content s and numeric content n.                          *)
(***************************************************************************)
EXTENDS Integers, Sequences, FiniteSets

VARIABLES
  client,   \* the WebResolver instance: construction state and this.baseURL
  apiKey,   \* the value passed to the constructor
  calls,    \* calls[i]: one invocation of a method, and where it stands
  net,      \* net[i]: the axios.get promise of invocation i, as the transport sees it
  inputs    \* which values callers draw from: "every" or "few" (fixed by Init)

vars == <<client, apiKey, calls, net, inputs>>

(***************************************************************************)
(* Bounds of the model.                                                    *)
(***************************************************************************)
\* longest string enumerated exhaustively over Alphabet
MaxLen == 2
\* invocations in flight at once in the concurrent specification
MaxCalls == 2

(***************************************************************************)
(* JavaScript values.                                                      *)
(***************************************************************************)
Undefined == [t |-> "undefined", s |-> <<>>, n |-> 0]
Null == [t |-> "null", s |-> <<>>, n |-> 0]
Obj == [t |-> "object", s |-> <<>>, n |-> 0]
Str(s) == [t |-> "string", s |-> s, n |-> 0]
Num(n) == [t |-> "number", s |-> <<>>, n |-> n]

DigitChars == <<"0", "1", "2", "3", "4", "5", "6", "7", "8", "9">>

RECURSIVE NatToString(_)
NatToString(n) ==
  IF n < 10 THEN <<DigitChars[n + 1]>>
  ELSE NatToString(n \div 10) \o <<DigitChars[(n % 10) + 1]>>

\* What '...' + value appends: the value's string conversion.
StringOf(value) ==
  CASE value.t = "string" -> value.s
    [] value.t = "undefined" -> (* 'undefined' *) <<"u","n","d","e","f","i","n","e","d">>
    [] value.t = "null" -> (* 'null' *) <<"n","u","l","l">>
    [] value.t = "number" ->
         IF value.n < 0 THEN <<"-">> \o NatToString(0 - value.n) ELSE NatToString(value.n)
    [] OTHER -> (* '[object Object]' *) <<"[","o","b","j","e","c","t"," ","O","b","j","e","c","t","]">>

(***************************************************************************)
(* Character classes and string helpers.                                   *)
(***************************************************************************)
\* the white space String.prototype.trim removes, as far as a string here can
\* hold it: space, tab, line feed, carriage return, form feed
WhiteSpace == {" ", "\t", "\n", "\r", "\f"}
Digits == {"0", "1", "2", "3", "4", "5", "6", "7", "8", "9"}
LowerLetters ==
  {"a", "b", "c", "d", "e", "f", "g", "h", "i", "j", "k", "l", "m",
   "n", "o", "p", "q", "r", "s", "t", "u", "v", "w", "x", "y", "z"}
UpperLetters ==
  {"A", "B", "C", "D", "E", "F", "G", "H", "I", "J", "K", "L", "M",
   "N", "O", "P", "Q", "R", "S", "T", "U", "V", "W", "X", "Y", "Z"}
Letters == LowerLetters \cup UpperLetters
HexDigits == Digits \cup {"a", "b", "c", "d", "e", "f", "A", "B", "C", "D", "E", "F"}

RECURSIVE trimStart(_)
trimStart(s) ==
  IF s = <<>> \/ Head(s) \notin WhiteSpace THEN s ELSE trimStart(Tail(s))

RECURSIVE trimEnd(_)
trimEnd(s) ==
  IF s = <<>> \/ s[Len(s)] \notin WhiteSpace THEN s
  ELSE trimEnd(SubSeq(s, 1, Len(s) - 1))

\* String.prototype.trim
trim(s) == trimEnd(trimStart(s))

\* String.prototype.split(c) for a one-character separator: never empty
RECURSIVE split(_, _)
split(s, c) ==
  IF \A k \in 1..Len(s) : s[k] # c THEN <<s>>
  ELSE LET p == CHOOSE k \in 1..Len(s) : s[k] = c /\ \A j \in 1..(k - 1) : s[j] # c
       IN <<SubSeq(s, 1, p - 1)>> \o split(SubSeq(s, p + 1, Len(s)), c)

\* Array.prototype.join(c)
RECURSIVE join(_, _)
join(parts, c) ==
  IF parts = <<>> THEN <<>>
  ELSE IF Len(parts) = 1 THEN parts[1]
  ELSE parts[1] \o <<c>> \o join(Tail(parts), c)

Contains(s, p) ==
  \E k \in 1..(Len(s) - Len(p) + 1) : SubSeq(s, k, k + Len(p) - 1) = p
AllIn(s, class) == \A k \in 1..Len(s) : s[k] \in class

(***************************************************************************)
(* The validator package, as src/index.js uses it (default options).       *)
(***************************************************************************)
\* the outcome of evaluating a check: a boolean, or a thrown TypeError
Completes(b) == [threw |-> FALSE, value |-> b]
ThrowsTypeError == [threw |-> TRUE, value |-> FALSE]

\* validator.isEmpty(value): assertString throws a TypeError on a non-string
\* (every release of the package since 5.0), then str.length === 0
\* (ignore_whitespace is off by default)
validatorIsEmpty(value) ==
  IF value.t # "string" THEN ThrowsTypeError ELSE Completes(Len(value.s) = 0)

\* an IPv4 segment: [0-9] | [1-9][0-9] | 1[0-9][0-9] | 2[0-4][0-9] | 25[0-5]
IPv4Segment(p) ==
  /\ Len(p) \in 1..3
  /\ AllIn(p, Digits)
  /\ Len(p) = 2 => p[1] # "0"
  /\ Len(p) = 3 =>
       \/ p[1] = "1"
       \/ p[1] = "2" /\ p[2] \in {"0", "1", "2", "3", "4"}
       \/ p[1] = "2" /\ p[2] = "5" /\ p[3] \in {"0", "1", "2", "3", "4", "5"}

IPv4Address(s) ==
  LET parts == split(s, ".")
  IN Len(parts) = 4 /\ \A k \in 1..4 : IPv4Segment(parts[k])

\* an IPv6 segment: [0-9a-fA-F]{1,4}
IPv6Segment(p) == Len(p) \in 1..4 /\ AllIn(p, HexDigits)

\* groups separated by ':', the last of which may be a dotted IPv4 address;
\* the number of 16-bit groups they stand for, or -1 when one is malformed
IPv6Groups(s) ==
  IF s = <<>> THEN 0
  ELSE LET parts == split(s, ":")
           n == Len(parts)
       IN IF \A k \in 1..n : IPv6Segment(parts[k]) THEN n
          ELSE IF (\A k \in 1..(n - 1) : IPv6Segment(parts[k])) /\ IPv4Address(parts[n])
               THEN n + 1
          ELSE -1

\* left of a '::' only plain segments may stand
IPv6Left(s) ==
  IF s = <<>> THEN 0
  ELSE LET parts == split(s, ":")
       IN IF \A k \in 1..Len(parts) : IPv6Segment(parts[k]) THEN Len(parts) ELSE -1

IPv6Body(s) ==
  IF Contains(s, <<":",":">>)
  THEN LET p == CHOOSE k \in 1..(Len(s) - 1) :
                  /\ SubSeq(s, k, k + 1) = <<":",":">>
                  /\ \A j \in 1..(k - 1) : SubSeq(s, j, j + 1) # <<":",":">>
           l == IPv6Left(SubSeq(s, 1, p - 1))
           r == IPv6Groups(SubSeq(s, p + 2, Len(s)))
       IN l >= 0 /\ r >= 0 /\ l + r <= 7
  ELSE IPv6Groups(s) = 8

IPv6Address(s) ==
  IF \E k \in 1..Len(s) : s[k] = "%"
  THEN LET p == CHOOSE k \in 1..Len(s) : s[k] = "%" /\ \A j \in 1..(k - 1) : s[j] # "%"
           zone == SubSeq(s, p + 1, Len(s))
       IN /\ IPv6Body(SubSeq(s, 1, p - 1))
          /\ Len(zone) >= 1
          /\ AllIn(zone, Digits \cup Letters \cup {"-", ".", ":"})
  ELSE IPv6Body(s)

\* validator.isIP(str) without a version: IPv4 or IPv6
validatorIsIP(str) == IPv4Address(str) \/ IPv6Address(str)

\* validator.isFQDN(str) with the default options
validatorIsFQDN(str) ==
  LET parts == split(str, ".")
      tld == parts[Len(parts)]
  IN /\ Len(parts) >= 2
     /\ \/ Len(tld) >= 2 /\ AllIn(tld, Letters)
        \/ /\ Len(tld) >= 4
           /\ tld[1] \in {"x", "X"} /\ tld[2] \in {"n", "N"}
           /\ AllIn(tld, Letters \cup Digits \cup {"-"})
     /\ \A k \in 1..Len(parts) :
          /\ Len(parts[k]) \in 1..63
          /\ AllIn(parts[k], Letters \cup Digits \cup {"-"})
          /\ parts[k][1] # "-"
          /\ parts[k][Len(parts[k])] # "-"

\* the characters of an unquoted local part: letters, digits and
\* ! # $ % & ' * + - / = ? ^ _ { | } ~ (the grave accent, which the pattern
\* also admits, cannot be written in a string here and is in no input)
EmailUserChars ==
  Letters \cup Digits \cup
  {"!", "#", "$", "%", "&", "'", "*", "+", "-", "/", "=", "?", "^", "_", "{", "|", "}", "~"}

\* validator.isEmail(str) with the default options: the domain is what
\* follows the last '@' and must be a fully qualified domain name; the local
\* part is dot-separated runs of EmailUserChars (a local part in double
\* quotes, which the package reads by another pattern, is in no input)
validatorIsEmail(str) ==
  LET parts == split(str, "@")
      domain == parts[Len(parts)]
      user == join(SubSeq(parts, 1, Len(parts) - 1), "@")
      user_parts == split(user, ".")
  IN /\ Len(str) <= 254
     /\ Len(user) <= 64
     /\ Len(domain) <= 254
     /\ validatorIsFQDN(domain)
     /\ \A k \in 1..Len(user_parts) :
          Len(user_parts[k]) >= 1 /\ AllIn(user_parts[k], EmailUserChars)

\* isEmpty without the trim clause: only validator.isEmpty decides a string
isEmptyUntrimmed(value) ==
  IF value.t = "undefined" \/ value.t = "null"
  THEN Completes(TRUE)
  ELSE LET r == validatorIsEmpty(value)
       IN IF r.threw THEN ThrowsTypeError ELSE Completes(r.value)

(***************************************************************************)
(* isEmpty, src/index.js lines 15-21.                                      *)
(***************************************************************************)
isEmpty(value) ==
  IF \/ value.t = "undefined"
     \/ value.t = "null"
     \/ (value.t = "string" /\ Len(trim(value.s)) = 0)
  THEN Completes(TRUE)
  ELSE LET r == validatorIsEmpty(value)
       IN IF r.threw THEN ThrowsTypeError ELSE Completes(r.value)

(***************************************************************************)
(* The constructor, src/index.js lines 24-27.  A non-string key makes      *)
(* isEmpty throw before baseURL is assigned; an empty key is only logged.  *)
(***************************************************************************)
NewClient == [state |-> "new", baseURL |-> <<>>, warned |-> FALSE]

\* a constructor that refuses an empty key
constructorStrict(key) ==
  LET e == isEmpty(key)
  IN IF e.threw \/ e.value THEN [state |-> "threw", baseURL |-> <<>>, warned |-> e.value]
     ELSE [state |-> "ready",
           baseURL |-> (* 'https://webresolver.nl/api.php?key=' *) <<"h","t","t","p","s",":","/","/","w","e","b","r","e","s","o","l","v","e","r",".","n","l","/","a","p","i",".","p","h","p","?","k","e","y","=">> \o StringOf(key),
           warned |-> FALSE]

constructor(key) ==
  LET e == isEmpty(key)
  IN IF e.threw THEN [state |-> "threw", baseURL |-> <<>>, warned |-> FALSE]
     ELSE [state |-> "ready",
           baseURL |-> (* 'https://webresolver.nl/api.php?key=' *) <<"h","t","t","p","s",":","/","/","w","e","b","r","e","s","o","l","v","e","r",".","n","l","/","a","p","i",".","p","h","p","?","k","e","y","=">> \o StringOf(key),
           warned |-> e.value]

(***************************************************************************)
(* What the synchronous part of an async method does: return a synthetic   *)
(* {data: {error}} object, await axios.get(url), or throw.                 *)
(***************************************************************************)
ReturnError(text) == [kind |-> "return", url |-> <<>>, value |-> text]
AwaitGet(url) == [kind |-> "get", url |-> url, value |-> ""]
Raise == [kind |-> "throw", url |-> <<>>, value |-> "TypeError"]

\* if(isEmpty(x)) {return {data: {error: text}}} else {rest}
IfEmpty(x, text, rest) ==
  LET e == isEmpty(x)
  IN IF e.threw THEN Raise ELSE IF e.value THEN ReturnError(text) ELSE rest

(***************************************************************************)
(* The methods, src/index.js lines 34-279.                                 *)
(***************************************************************************)
skypeResolve(this, username) ==
  IfEmpty(username, "Please enter a Skype username!",
    AwaitGet(this.baseURL \o (* '&json&action=resolve&string=' *) <<"&","j","s","o","n","&","a","c","t","i","o","n","=","r","e","s","o","l","v","e","&","s","t","r","i","n","g","=">> \o StringOf(username)))

resolveDb(this, username) ==
  IfEmpty(username, "Please enter a Skype username!",
    AwaitGet(this.baseURL \o (* '&json&action=resolvedb&string=' *) <<"&","j","s","o","n","&","a","c","t","i","o","n","=","r","e","s","o","l","v","e","d","b","&","s","t","r","i","n","g","=">> \o StringOf(username)))

\* ip2skype without the format check
ip2skypeUnchecked(this, ip) ==
  IfEmpty(ip, "Please enter a valid IP address!",
    AwaitGet(this.baseURL \o (* '&json&action=ip2skype&string=' *) <<"&","j","s","o","n","&","a","c","t","i","o","n","=","i","p","2","s","k","y","p","e","&","s","t","r","i","n","g","=">> \o StringOf(ip)))

ip2skype(this, ip) ==
  IfEmpty(ip, "Please enter a valid IP address!",
    IF validatorIsIP(ip.s)
    THEN AwaitGet(this.baseURL \o (* '&json&action=ip2skype&string=' *) <<"&","j","s","o","n","&","a","c","t","i","o","n","=","i","p","2","s","k","y","p","e","&","s","t","r","i","n","g","=">> \o StringOf(ip))
    ELSE ReturnError("Please enter a valid IP address!"))

email2skype(this, email) ==
  IfEmpty(email, "Please enter a valid email address!",
    IF validatorIsEmail(email.s)
    THEN AwaitGet(this.baseURL \o (* '&json&action=email2skype&string=' *) <<"&","j","s","o","n","&","a","c","t","i","o","n","=","e","m","a","i","l","2","s","k","y","p","e","&","s","t","r","i","n","g","=">> \o StringOf(email))
    ELSE ReturnError("Please enter a valid email address!"))

skype2email(this, username) ==
  IfEmpty(username, "Please enter a Skype username!",
    AwaitGet(this.baseURL \o (* '&json&action=skype2email&string=' *) <<"&","j","s","o","n","&","a","c","t","i","o","n","=","s","k","y","p","e","2","e","m","a","i","l","&","s","t","r","i","n","g","=">> \o StringOf(username)))

geoIp(this, domain) ==
  IfEmpty(domain, "Please enter a domain, IPv4 or IPv6 address!",
    AwaitGet(this.baseURL \o (* '&json&action=geoip&string=' *) <<"&","j","s","o","n","&","a","c","t","i","o","n","=","g","e","o","i","p","&","s","t","r","i","n","g","=">> \o StringOf(domain)))

dns(this, domain) ==
  IfEmpty(domain, "Please enter a domain!",
    AwaitGet(this.baseURL \o (* '&json&action=dns&string=' *) <<"&","j","s","o","n","&","a","c","t","i","o","n","=","d","n","s","&","s","t","r","i","n","g","=">> \o StringOf(domain)))

cloudflare(this, domain) ==
  IfEmpty(domain, "Please enter a domain!",
    AwaitGet(this.baseURL \o (* '&json&action=cloudflare&string=' *) <<"&","j","s","o","n","&","a","c","t","i","o","n","=","c","l","o","u","d","f","l","a","r","e","&","s","t","r","i","n","g","=">> \o StringOf(domain)))

phone(this, phonenumber) ==
  IfEmpty(phonenumber, "Please enter a phone number! (Use international phone format)",
    AwaitGet(this.baseURL \o (* '&json&action=phonenumbercheck&string=' *) <<"&","j","s","o","n","&","a","c","t","i","o","n","=","p","h","o","n","e","n","u","m","b","e","r","c","h","e","c","k","&","s","t","r","i","n","g","=">> \o StringOf(phonenumber)))

screenshot(this, url) ==
  IfEmpty(url, "Please enter a url!",
    AwaitGet(this.baseURL \o (* '&json&action=screenshot&string=' *) <<"&","j","s","o","n","&","a","c","t","i","o","n","=","s","c","r","e","e","n","s","h","o","t","&","s","t","r","i","n","g","=">> \o StringOf(url)))

\* headers asking for JSON like the other methods
headersJson(this, domain) ==
  IfEmpty(domain, "Please enter a domain!",
    AwaitGet(this.baseURL \o (* '&json&action=header&string=' *) <<"&","j","s","o","n","&","a","c","t","i","o","n","=","h","e","a","d","e","r","&","s","t","r","i","n","g","=">> \o StringOf(domain)))

headers(this, domain) ==
  IfEmpty(domain, "Please enter a domain!",
    AwaitGet(this.baseURL \o (* '&html=0&action=header&string=' *) <<"&","h","t","m","l","=","0","&","a","c","t","i","o","n","=","h","e","a","d","e","r","&","s","t","r","i","n","g","=">> \o StringOf(domain)))

whois(this, url) ==
  IfEmpty(url, "Please enter a url!",
    AwaitGet(this.baseURL \o (* '&html=0&action=whois&string=' *) <<"&","h","t","m","l","=","0","&","a","c","t","i","o","n","=","w","h","o","i","s","&","s","t","r","i","n","g","=">> \o StringOf(url)))

ping(this, url) ==
  IfEmpty(url, "Please enter a url!",
    AwaitGet(this.baseURL \o (* '&html=0&action=ping&string=' *) <<"&","h","t","m","l","=","0","&","a","c","t","i","o","n","=","p","i","n","g","&","s","t","r","i","n","g","=">> \o StringOf(url)))

\* port=null: the default replaces an omitted (undefined) argument only
portscan(this, url, portArg) ==
  LET port == IF portArg.t = "undefined" THEN Null ELSE portArg
  IN IfEmpty(url, "Please enter a url!",
       IF port.t = "null"
       THEN AwaitGet(this.baseURL \o (* '&json&action=portscan&string=' *) <<"&","j","s","o","n","&","a","c","t","i","o","n","=","p","o","r","t","s","c","a","n","&","s","t","r","i","n","g","=">> \o StringOf(url))
       ELSE AwaitGet(this.baseURL \o (* '&json&action=portscan&string=' *) <<"&","j","s","o","n","&","a","c","t","i","o","n","=","p","o","r","t","s","c","a","n","&","s","t","r","i","n","g","=">> \o StringOf(url)
                       \o (* '&port=' *) <<"&","p","o","r","t","=">> \o StringOf(port)))

\* iplogger with the default its comment documents, logger="youtube"
iploggerYoutube(this, loggerArg, idArg) ==
  LET logger == IF loggerArg.t = "undefined" THEN Str((* 'youtube' *) <<"y","o","u","t","u","b","e">>) ELSE loggerArg
      id == IF idArg.t = "undefined" THEN Str(<<>>) ELSE idArg
  IN AwaitGet(this.baseURL \o (* '&json&action=iplogger&string=' *) <<"&","j","s","o","n","&","a","c","t","i","o","n","=","i","p","l","o","g","g","e","r","&","s","t","r","i","n","g","=">> \o StringOf(id)
                \o (* '&logger=' *) <<"&","l","o","g","g","e","r","=">> \o StringOf(logger))

\* logger="", id="": no check of either
iplogger(this, loggerArg, idArg) ==
  LET logger == IF loggerArg.t = "undefined" THEN Str(<<>>) ELSE loggerArg
      id == IF idArg.t = "undefined" THEN Str(<<>>) ELSE idArg
  IN AwaitGet(this.baseURL \o (* '&json&action=iplogger&string=' *) <<"&","j","s","o","n","&","a","c","t","i","o","n","=","i","p","l","o","g","g","e","r","&","s","t","r","i","n","g","=">> \o StringOf(id)
                \o (* '&logger=' *) <<"&","l","o","g","g","e","r","=">> \o StringOf(logger))

isTempEmail(this, email) ==
  IfEmpty(email, "Please enter a valid email address!",
    IF validatorIsEmail(email.s)
    THEN AwaitGet(this.baseURL \o (* '&json&action=disposable_email&string=' *) <<"&","j","s","o","n","&","a","c","t","i","o","n","=","d","i","s","p","o","s","a","b","l","e","_","e","m","a","i","l","&","s","t","r","i","n","g","=">> \o StringOf(email))
    ELSE ReturnError("Please enter a valid email address!"))

ip2websites(this, ip) ==
  IfEmpty(ip, "Please enter a valid IP address!",
    IF validatorIsIP(ip.s)
    THEN AwaitGet(this.baseURL \o (* '&json&action=ip2websites&string=' *) <<"&","j","s","o","n","&","a","c","t","i","o","n","=","i","p","2","w","e","b","s","i","t","e","s","&","s","t","r","i","n","g","=">> \o StringOf(ip))
    ELSE ReturnError("Please enter a valid IP address!"))

domainInfo(this, domain) ==
  IfEmpty(domain, "Please enter a domain!",
    AwaitGet(this.baseURL \o (* '&json&action=domaininfo&string=' *) <<"&","j","s","o","n","&","a","c","t","i","o","n","=","d","o","m","a","i","n","i","n","f","o","&","s","t","r","i","n","g","=">> \o StringOf(domain)))

(***************************************************************************)
(* The values callers pass.                                                *)
(***************************************************************************)
Alphabet == {" ", "a", "1", ".", "@", "&"}

\* every string over Alphabet of at most MaxLen characters
ShortStrings == UNION {[1..n -> Alphabet] : n \in 0..MaxLen}

NamedStrings ==
  {(* '8.8.8.8' *) <<"8",".","8",".","8",".","8">>, (* '999.999.999.999' *) <<"9","9","9",".","9","9","9",".","9","9","9",".","9","9","9">>, (* 'not-an-ip' *) <<"n","o","t","-","a","n","-","i","p">>, (* '::1' *) <<":",":","1">>,
   (* 'a@b.com' *) <<"a","@","b",".","c","o","m">>, (* 'not-an-email' *) <<"n","o","t","-","a","n","-","e","m","a","i","l">>, (* 'a&key=z@b.co' *) <<"a","&","k","e","y","=","z","@","b",".","c","o">>,
   (* 'example.com' *) <<"e","x","a","m","p","l","e",".","c","o","m">>, (* 'x&action=dns' *) <<"x","&","a","c","t","i","o","n","=","d","n","s">>, (* 'a&port=1' *) <<"a","&","p","o","r","t","=","1">>, (* ' \t\n' *) <<" ","\t","\n">>}

Values ==
  {Undefined, Null, Num(5), Obj} \cup {Str(s) : s \in ShortStrings \cup NamedStrings}

Keys == {Undefined, Null, Num(5), Str(<<>>), Str(<<" ">>), Str((* 'k3y' *) <<"k","3","y">>)}
Ports == {Undefined, Null, Num(0), Num(80), Str((* '443' *) <<"4","4","3">>)}
Loggers == {Undefined, Null, Str(<<>>), Str((* 'youtube' *) <<"y","o","u","t","u","b","e">>)}

\* what the transport may deliver: a response (one whose body carries the
\* remote API's own error field among them) or a failure
Responses == {"200 ok", "200 data.error"}
Failures == {"ECONNRESET"}

AllInputs ==
  [keys |-> Keys, primary |-> Values, ports |-> Ports, loggers |-> Loggers,
   responses |-> Responses, failures |-> Failures]

\* the values of the concurrent specification: one of each kind of outcome
FewInputs ==
  [keys |-> {Str((* 'k3y' *) <<"k","3","y">>)}, primary |-> {Str(<<"a">>)}, ports |-> {Undefined, Num(80)},
   loggers |-> {Undefined}, responses |-> {"200 ok"}, failures |-> {"ECONNRESET"}]

\* the values the callers of this behaviour draw from
Drawn == IF inputs = "every" THEN AllInputs ELSE FewInputs

(***************************************************************************)
(* State.                                                                  *)
(***************************************************************************)
NoResult == [kind |-> "none", v |-> ""]
IdleCall == [pc |-> "idle", method |-> "", args |-> <<Undefined, Undefined>>, result |-> NoResult]
NoRequest == [state |-> "none", url |-> <<>>, count |-> 0, v |-> ""]

Init ==
  /\ client = NewClient
  /\ apiKey = Undefined
  /\ calls = [i \in 1..1 |-> IdleCall]
  /\ net = [i \in 1..1 |-> NoRequest]
  /\ inputs = "every"

InitConcurrent ==
  /\ client = NewClient
  /\ apiKey = Undefined
  /\ calls = [i \in 1..MaxCalls |-> IdleCall]
  /\ net = [i \in 1..MaxCalls |-> NoRequest]
  /\ inputs = "few"

(***************************************************************************)
(* Actions.                                                                *)
(***************************************************************************)
\* new WebResolver(key)
Construct ==
  \E key \in Drawn.keys :
    /\ client.state = "new"
    /\ client' = constructor(key)
    /\ apiKey' = key
    /\ UNCHANGED <<calls, net, inputs>>

\* A call of an async method runs to its return, its throw or its first
\* await in one step: the promise it returns is resolved with the synthetic
\* object, rejected with what was thrown, or left pending on axios.get(url).
\* No method assigns a field of the client.
CanCall(i) == client.state = "ready" /\ calls[i].pc = "idle"

\* a method that keeps the URL it built in this.baseURL
InvokeStoringURL(i, method, args, effect) ==
  /\ CanCall(i)
  /\ calls' = [calls EXCEPT ![i] =
       [pc |-> CASE effect.kind = "get" -> "awaiting"
                 [] effect.kind = "return" -> "resolved"
                 [] OTHER -> "rejected",
        method |-> method,
        args |-> args,
        result |-> CASE effect.kind = "get" -> NoResult
                     [] effect.kind = "return" -> [kind |-> "synthetic", v |-> effect.value]
                     [] OTHER -> [kind |-> "thrown", v |-> effect.value]]]
  /\ net' = [net EXCEPT ![i] =
       IF effect.kind = "get"
       THEN [state |-> "pending", url |-> effect.url, count |-> @.count + 1, v |-> ""]
       ELSE @]
  /\ client' = IF effect.kind = "get" THEN [client EXCEPT !.baseURL = effect.url] ELSE client
  /\ UNCHANGED <<apiKey, inputs>>

Invoke(i, method, args, effect) ==
  /\ CanCall(i)
  /\ calls' = [calls EXCEPT ![i] =
       [pc |-> CASE effect.kind = "get" -> "awaiting"
                 [] effect.kind = "return" -> "resolved"
                 [] OTHER -> "rejected",
        method |-> method,
        args |-> args,
        result |-> CASE effect.kind = "get" -> NoResult
                     [] effect.kind = "return" -> [kind |-> "synthetic", v |-> effect.value]
                     [] OTHER -> [kind |-> "thrown", v |-> effect.value]]]
  /\ net' = [net EXCEPT ![i] =
       IF effect.kind = "get"
       THEN [state |-> "pending", url |-> effect.url, count |-> @.count + 1, v |-> ""]
       ELSE @]
  /\ UNCHANGED <<client, apiKey, inputs>>

\* the transport settles the promise of axios.get
AxiosFulfil(i) ==
  \E r \in Drawn.responses :
    /\ net[i].state = "pending"
    /\ net' = [net EXCEPT ![i].state = "fulfilled", ![i].v = r]
    /\ UNCHANGED <<client, apiKey, calls, inputs>>

AxiosFail(i) ==
  \E e \in Drawn.failures :
    /\ net[i].state = "pending"
    /\ net' = [net EXCEPT ![i].state = "failed", ![i].v = e]
    /\ UNCHANGED <<client, apiKey, calls, inputs>>

\* return await axios.get(...): the response is returned as it is
AwaitFulfilled(i) ==
  /\ calls[i].pc = "awaiting"
  /\ net[i].state = "fulfilled"
  /\ calls' = [calls EXCEPT ![i].pc = "resolved",
                            ![i].result = [kind |-> "response", v |-> net[i].v]]
  /\ UNCHANGED <<client, apiKey, net, inputs>>

\* a method that catches the failure and returns it as {data: {error}}
AwaitRejectedCaught(i) ==
  /\ calls[i].pc = "awaiting"
  /\ net[i].state = "failed"
  /\ calls' = [calls EXCEPT ![i].pc = "resolved",
                            ![i].result = [kind |-> "synthetic", v |-> net[i].v]]
  /\ UNCHANGED <<client, apiKey, net, inputs>>

\* return await axios.get(...): no try/catch, the failure propagates
AwaitRejected(i) ==
  /\ calls[i].pc = "awaiting"
  /\ net[i].state = "failed"
  /\ calls' = [calls EXCEPT ![i].pc = "rejected",
                            ![i].result = [kind |-> "failure", v |-> net[i].v]]
  /\ UNCHANGED <<client, apiKey, net, inputs>>

Next ==
  \/ Construct
  \/ \E i \in DOMAIN calls : CanCall(i) /\ \E username \in Drawn.primary :
       Invoke(i, "skypeResolve", <<username, Undefined>>, skypeResolve(client, username))
  \/ \E i \in DOMAIN calls : CanCall(i) /\ \E username \in Drawn.primary :
       Invoke(i, "resolveDb", <<username, Undefined>>, resolveDb(client, username))
  \/ \E i \in DOMAIN calls : CanCall(i) /\ \E ip \in Drawn.primary :
       Invoke(i, "ip2skype", <<ip, Undefined>>, ip2skype(client, ip))
  \/ \E i \in DOMAIN calls : CanCall(i) /\ \E email \in Drawn.primary :
       Invoke(i, "email2skype", <<email, Undefined>>, email2skype(client, email))
  \/ \E i \in DOMAIN calls : CanCall(i) /\ \E username \in Drawn.primary :
       Invoke(i, "skype2email", <<username, Undefined>>, skype2email(client, username))
  \/ \E i \in DOMAIN calls : CanCall(i) /\ \E domain \in Drawn.primary :
       Invoke(i, "geoIp", <<domain, Undefined>>, geoIp(client, domain))
  \/ \E i \in DOMAIN calls : CanCall(i) /\ \E domain \in Drawn.primary :
       Invoke(i, "dns", <<domain, Undefined>>, dns(client, domain))
  \/ \E i \in DOMAIN calls : CanCall(i) /\ \E domain \in Drawn.primary :
       Invoke(i, "cloudflare", <<domain, Undefined>>, cloudflare(client, domain))
  \/ \E i \in DOMAIN calls : CanCall(i) /\ \E phonenumber \in Drawn.primary :
       Invoke(i, "phone", <<phonenumber, Undefined>>, phone(client, phonenumber))
  \/ \E i \in DOMAIN calls : CanCall(i) /\ \E url \in Drawn.primary :
       Invoke(i, "screenshot", <<url, Undefined>>, screenshot(client, url))
  \/ \E i \in DOMAIN calls : CanCall(i) /\ \E domain \in Drawn.primary :
       Invoke(i, "headers", <<domain, Undefined>>, headers(client, domain))
  \/ \E i \in DOMAIN calls : CanCall(i) /\ \E url \in Drawn.primary :
       Invoke(i, "whois", <<url, Undefined>>, whois(client, url))
  \/ \E i \in DOMAIN calls : CanCall(i) /\ \E url \in Drawn.primary :
       Invoke(i, "ping", <<url, Undefined>>, ping(client, url))
  \/ \E i \in DOMAIN calls : CanCall(i) /\ \E url \in Drawn.primary, port \in Drawn.ports :
       Invoke(i, "portscan", <<url, port>>, portscan(client, url, port))
  \/ \E i \in DOMAIN calls : CanCall(i) /\ \E logger \in Drawn.loggers, id \in Drawn.primary :
       Invoke(i, "iplogger", <<logger, id>>, iplogger(client, logger, id))
  \/ \E i \in DOMAIN calls : CanCall(i) /\ \E email \in Drawn.primary :
       Invoke(i, "isTempEmail", <<email, Undefined>>, isTempEmail(client, email))
  \/ \E i \in DOMAIN calls : CanCall(i) /\ \E ip \in Drawn.primary :
       Invoke(i, "ip2websites", <<ip, Undefined>>, ip2websites(client, ip))
  \/ \E i \in DOMAIN calls : CanCall(i) /\ \E domain \in Drawn.primary :
       Invoke(i, "domainInfo", <<domain, Undefined>>, domainInfo(client, domain))
  \/ \E i \in DOMAIN calls : AxiosFulfil(i)
  \/ \E i \in DOMAIN calls : AxiosFail(i)
  \/ \E i \in DOMAIN calls : AwaitFulfilled(i)
  \/ \E i \in DOMAIN calls : AwaitRejected(i)

\* one invocation at a time, over every value
Spec == Init /\ [][Next]_vars

\* MaxCalls invocations in flight at once
SpecConcurrent == InitConcurrent /\ [][Next]_vars

(***************************************************************************)
(* Vocabulary of the properties.                                           *)
(***************************************************************************)
StartsWith(s, p) == Len(p) <= Len(s) /\ SubSeq(s, 1, Len(p)) = p
EndsWith(s, p) == Len(p) <= Len(s) /\ SubSeq(s, Len(s) - Len(p) + 1, Len(s)) = p

Started(i) == calls[i].pc # "idle"
Primary(i) == calls[i].args[1]
Issued(i) == net[i].count > 0

\* undefined, null, the empty string or a string of white space only
Blank(v) == v.t \in {"undefined", "null"} \/ (v.t = "string" /\ AllIn(v.s, WhiteSpace))
NonBlankString(v) == v.t = "string" /\ \E k \in 1..Len(v.s) : v.s[k] \notin WhiteSpace

\* the call resolved to {data: {error: <string>}} and no request was issued
LocalError(i) ==
  /\ calls[i].pc = "resolved"
  /\ calls[i].result.kind = "synthetic"
  /\ net[i] = NoRequest

IPMethods == {"ip2skype", "ip2websites"}
EmailMethods == {"email2skype", "isTempEmail"}
FormatMethods == IPMethods \cup EmailMethods
FormatOk(m, s) ==
  CASE m \in IPMethods -> validatorIsIP(s)
    [] m \in EmailMethods -> validatorIsEmail(s)
    [] OTHER -> TRUE
PassesValidation(m, v) == NonBlankString(v) /\ FormatOk(m, v.s)

\* the action codes of the specification's table
ActionCode(m) ==
  CASE m = "skypeResolve" -> (* 'resolve' *) <<"r","e","s","o","l","v","e">>
    [] m = "resolveDb" -> (* 'resolvedb' *) <<"r","e","s","o","l","v","e","d","b">>
    [] m = "ip2skype" -> (* 'ip2skype' *) <<"i","p","2","s","k","y","p","e">>
    [] m = "email2skype" -> (* 'email2skype' *) <<"e","m","a","i","l","2","s","k","y","p","e">>
    [] m = "skype2email" -> (* 'skype2email' *) <<"s","k","y","p","e","2","e","m","a","i","l">>
    [] m = "geoIp" -> (* 'geoip' *) <<"g","e","o","i","p">>
    [] m = "dns" -> (* 'dns' *) <<"d","n","s">>
    [] m = "cloudflare" -> (* 'cloudflare' *) <<"c","l","o","u","d","f","l","a","r","e">>
    [] m = "phone" -> (* 'phonenumbercheck' *) <<"p","h","o","n","e","n","u","m","b","e","r","c","h","e","c","k">>
    [] m = "screenshot" -> (* 'screenshot' *) <<"s","c","r","e","e","n","s","h","o","t">>
    [] m = "headers" -> (* 'header' *) <<"h","e","a","d","e","r">>
    [] m = "whois" -> (* 'whois' *) <<"w","h","o","i","s">>
    [] m = "ping" -> (* 'ping' *) <<"p","i","n","g">>
    [] m = "portscan" -> (* 'portscan' *) <<"p","o","r","t","s","c","a","n">>
    [] m = "iplogger" -> (* 'iplogger' *) <<"i","p","l","o","g","g","e","r">>
    [] m = "isTempEmail" -> (* 'disposable_email' *) <<"d","i","s","p","o","s","a","b","l","e","_","e","m","a","i","l">>
    [] m = "ip2websites" -> (* 'ip2websites' *) <<"i","p","2","w","e","b","s","i","t","e","s">>
    [] m = "domainInfo" -> (* 'domaininfo' *) <<"d","o","m","a","i","n","i","n","f","o">>

FormatFlag(m) == IF m \in {"headers", "whois", "ping"} THEN (* '&html=0' *) <<"&","h","t","m","l","=","0">> ELSE (* '&json' *) <<"&","j","s","o","n">>

\* {base}&json&action=<code>&string=<primary>
RequestURL(base, m, primary) ==
  base \o FormatFlag(m) \o (* '&action=' *) <<"&","a","c","t","i","o","n","=">> \o ActionCode(m) \o (* '&string=' *) <<"&","s","t","r","i","n","g","=">> \o primary

\* what a method returns for the empty string
EmptyInputResult(m) ==
  CASE m = "ip2skype" -> ip2skype(client, Str(<<>>))
    [] m = "ip2websites" -> ip2websites(client, Str(<<>>))
    [] m = "email2skype" -> email2skype(client, Str(<<>>))
    [] m = "isTempEmail" -> isTempEmail(client, Str(<<>>))

\* the query string of a URL, as the server reads it
Query(url) ==
  IF \E k \in 1..Len(url) : url[k] = "?"
  THEN LET p == CHOOSE k \in 1..Len(url) : url[k] = "?" /\ \A j \in 1..(k - 1) : url[j] # "?"
       IN SubSeq(url, p + 1, Len(url))
  ELSE <<>>
Params(url) == split(Query(url), "&")
ParamName(p) == split(p, "=")[1]
ParamValue(p) == SubSeq(p, Len(ParamName(p)) + 2, Len(p))
ParamsNamed(url, name) ==
  {k \in 1..Len(Params(url)) : ParamName(Params(url)[k]) = name}
OnlyParam(url, name, value) ==
  /\ Cardinality(ParamsNamed(url, name)) = 1
  /\ \A k \in ParamsNamed(url, name) : ParamValue(Params(url)[k]) = value

(***************************************************************************)
(* C1.  A validated method (every method but iplogger) called with         *)
(* undefined, null, the empty string or a string of white space only       *)
(* resolves to {data: {error: <string>}}, and no request is issued.        *)
(***************************************************************************)
C1_EmptyInputIsLocalError ==
  \A i \in DOMAIN calls :
    (Started(i) /\ calls[i].method # "iplogger" /\ Blank(Primary(i))) => LocalError(i)

C1_Witness ==
  \E i \in DOMAIN calls :
    /\ calls[i].method = "phone"
    /\ Primary(i) = Str((* ' \t\n' *) <<" ","\t","\n">>)
    /\ LocalError(i)

(***************************************************************************)
(* C2.  ip2skype, ip2websites, email2skype and isTempEmail, called with a  *)
(* string that is not blank and fails the format check, resolve to the     *)
(* same {data: {error}} as for the empty string, without a request; they   *)
(* issue a request only for a string that passes the check.                *)
(***************************************************************************)
C2_FormatErrorIsLocal ==
  \A i \in DOMAIN calls :
    (Started(i) /\ calls[i].method \in FormatMethods) =>
      /\ (NonBlankString(Primary(i)) /\ ~FormatOk(calls[i].method, Primary(i).s)) =>
           /\ LocalError(i)
           /\ EmptyInputResult(calls[i].method).kind = "return"
           /\ calls[i].result.v = EmptyInputResult(calls[i].method).value
      /\ Issued(i) => PassesValidation(calls[i].method, Primary(i))

C2_Witness ==
  \E i \in DOMAIN calls :
    /\ calls[i].method = "ip2websites"
    /\ Primary(i) = Str((* '999.999.999.999' *) <<"9","9","9",".","9","9","9",".","9","9","9",".","9","9","9">>)
    /\ LocalError(i)

(***************************************************************************)
(* C3.  A validated method called with an argument that passes validation  *)
(* issues a GET of baseURL + '&json' + '&action=' + code + '&string=' +    *)
(* argument, with '&html=0' for '&json' in headers, whois and ping, and    *)
(* for portscan possibly followed by a '&port=' suffix.                    *)
(***************************************************************************)
C3_RequestURL ==
  \A i \in DOMAIN calls :
    (Started(i) /\ calls[i].method # "iplogger"
       /\ PassesValidation(calls[i].method, Primary(i))) =>
      LET expected == RequestURL(client.baseURL, calls[i].method, Primary(i).s)
      IN /\ net[i].count = 1
         /\ IF calls[i].method = "portscan"
            THEN \/ net[i].url = expected
                 \/ StartsWith(net[i].url, expected \o (* '&port=' *) <<"&","p","o","r","t","=">>)
            ELSE net[i].url = expected

C3_Witness ==
  \E i \in DOMAIN calls :
    /\ calls[i].method = "whois"
    /\ Primary(i) = Str((* 'example.com' *) <<"e","x","a","m","p","l","e",".","c","o","m">>)
    /\ net[i].count = 1
    /\ EndsWith(net[i].url, (* '&html=0&action=whois&string=example.com' *) <<"&","h","t","m","l","=","0","&","a","c","t","i","o","n","=","w","h","o","i","s","&","s","t","r","i","n","g","=","e","x","a","m","p","l","e",".","c","o","m">>)

(***************************************************************************)
(* C4.  portscan with a non-empty url: with the port omitted, undefined or *)
(* null the URL ends with '&string=' + url and has no '&port=' parameter;  *)
(* with any other port, 0 included, it is that URL plus '&port=' + port.   *)
(* With an empty url no request is issued.                                 *)
(***************************************************************************)
C4_PortParameter ==
  \A i \in DOMAIN calls :
    (Started(i) /\ calls[i].method = "portscan") =>
      LET url == Primary(i)
          port == calls[i].args[2]
          plain == RequestURL(client.baseURL, "portscan", url.s)
      IN /\ NonBlankString(url) =>
              /\ net[i].count = 1
              /\ IF port \in {Undefined, Null}
                 THEN /\ EndsWith(net[i].url, (* '&string=' *) <<"&","s","t","r","i","n","g","=">> \o url.s)
                      /\ ~Contains(net[i].url, (* '&port=' *) <<"&","p","o","r","t","=">>)
                 ELSE net[i].url = plain \o (* '&port=' *) <<"&","p","o","r","t","=">> \o StringOf(port)
         /\ Blank(url) => ~Issued(i)

C6_EmptyKeySegment ==
  (client.state # "new" /\ Blank(apiKey)) =>
    /\ client.state = "ready"
    /\ \A i \in DOMAIN calls : Issued(i) => Contains(net[i].url, (* 'key=&' *) <<"k","e","y","=","&">>)

(***************************************************************************)
(* C6, amended.  Constructing with an empty key does not throw, and every  *)
(* request then issued carries after 'key=' the key as the concatenation   *)
(* converts it: nothing for the empty string, the white space itself for a *)
(* blank string, the text 'undefined' or 'null' for undefined or null.     *)
(***************************************************************************)
C6_EmptyKeyIsAppended ==
  (client.state # "new" /\ Blank(apiKey)) =>
    /\ client.state = "ready"
    /\ \A i \in DOMAIN calls :
         Issued(i) =>
           LET segment == CASE apiKey = Undefined -> (* 'undefined' *) <<"u","n","d","e","f","i","n","e","d">>
                            [] apiKey = Null -> (* 'null' *) <<"n","u","l","l">>
                            [] OTHER -> apiKey.s
           IN /\ StartsWith(net[i].url,
                   (* 'https://webresolver.nl/api.php?key=' *) <<"h","t","t","p","s",":","/","/","w","e","b","r","e","s","o","l","v","e","r",".","n","l","/","a","p","i",".","p","h","p","?","k","e","y","=">> \o segment \o <<"&">>)
              /\ apiKey = Str(<<>>) => Contains(net[i].url, (* 'key=&' *) <<"k","e","y","=","&">>)

C6_Witness ==
  /\ apiKey = Undefined
  /\ client.state = "ready"
  /\ \E i \in DOMAIN calls :
       Issued(i) /\ StartsWith(net[i].url, (* 'https://webresolver.nl/api.php?key=undefined&' *) <<"h","t","t","p","s",":","/","/","w","e","b","r","e","s","o","l","v","e","r",".","n","l","/","a","p","i",".","p","h","p","?","k","e","y","=","u","n","d","e","f","i","n","e","d","&">>)

(***************************************************************************)
(* C7.  Every request has exactly one 'key' parameter, whose value is the  *)
(* key given at construction, and exactly one 'action' parameter, whose    *)
(* value is the method's action code, whatever the arguments contain.      *)
(***************************************************************************)
C7_OneKeyOneAction ==
  \A i \in DOMAIN calls :
    Issued(i) =>
      /\ OnlyParam(net[i].url, (* 'key' *) <<"k","e","y">>, StringOf(apiKey))
      /\ OnlyParam(net[i].url, (* 'action' *) <<"a","c","t","i","o","n">>, ActionCode(calls[i].method))

(***************************************************************************)
(* C8.  Validation never throws: a validated method, whatever value it is  *)
(* given, rejects only when a request was issued and the transport failed. *)
(***************************************************************************)
C8_ValidationNeverThrows ==
  \A i \in DOMAIN calls :
    (Started(i) /\ calls[i].method # "iplogger") =>
      /\ calls[i].pc = "rejected" => (net[i].count = 1 /\ net[i].state = "failed")
      /\ ~Issued(i) => LocalError(i)

(***************************************************************************)
(* C9.  An invocation issues at most one request, exactly one when         *)
(* validation passes, and its outcome is that request's outcome: the       *)
(* response as it is when the transport resolves, the failure when the     *)
(* transport rejects, never turned into {data: {error}} and never retried. *)
(***************************************************************************)
C9_OneRequestOneOutcome ==
  \A i \in DOMAIN calls :
    /\ net[i].count <= 1
    /\ (Started(i) /\ (calls[i].method = "iplogger"
                         \/ PassesValidation(calls[i].method, Primary(i)))) =>
         net[i].count = 1
    /\ Issued(i) =>
         /\ calls[i].pc = "awaiting" => calls[i].result = NoResult
         /\ calls[i].pc = "resolved" =>
              /\ net[i].state = "fulfilled"
              /\ calls[i].result = [kind |-> "response", v |-> net[i].v]
         /\ calls[i].pc = "rejected" =>
              /\ net[i].state = "failed"
              /\ calls[i].result = [kind |-> "failure", v |-> net[i].v]

C9_Witness ==
  \E i \in DOMAIN calls :
    /\ calls[i].method = "portscan"
    /\ net[i].count = 1
    /\ net[i].state = "failed"
    /\ calls[i].pc = "rejected"
    /\ calls[i].result = [kind |-> "failure", v |-> "ECONNRESET"]

\* the URL a call requests, from the key and the call's own arguments alone
ExpectedRequest(key, m, args) ==
  LET base == (* 'https://webresolver.nl/api.php?key=' *) <<"h","t","t","p","s",":","/","/","w","e","b","r","e","s","o","l","v","e","r",".","n","l","/","a","p","i",".","p","h","p","?","k","e","y","=">> \o StringOf(key)
      text(v) == IF v = Undefined THEN <<>> ELSE StringOf(v)
  IN CASE m = "iplogger" ->
            RequestURL(base, m, text(args[2])) \o (* '&logger=' *) <<"&","l","o","g","g","e","r","=">> \o text(args[1])
       [] m = "portscan" /\ args[2] \notin {Undefined, Null} ->
            RequestURL(base, m, StringOf(args[1])) \o (* '&port=' *) <<"&","p","o","r","t","=">> \o StringOf(args[2])
       [] OTHER -> RequestURL(base, m, StringOf(args[1]))

\* one step, seen from every invocation
CallsIndependent ==
  /\ client.state = "ready" => client' = client
  /\ \A i \in DOMAIN calls, j \in DOMAIN calls :
       (i # j /\ (calls'[i] # calls[i] \/ net'[i] # net[i])) =>
         (calls'[j] = calls[j] /\ net'[j] = net[j])
  /\ \A i \in DOMAIN calls :
       /\ (net'[i].count > 0) =>
            net'[i].url = ExpectedRequest(apiKey, calls'[i].method, calls'[i].args)
       /\ (calls'[i].pc \in {"resolved", "rejected"} /\ net'[i].count > 0) =>
            calls'[i].result.v = net'[i].v
       /\ (calls'[i].pc \in {"resolved", "rejected"} /\ net'[i].count = 0) =>
            \A j \in DOMAIN calls :
              (calls'[j].method = calls'[i].method /\ calls'[j].args = calls'[i].args) =>
                calls'[j] = calls'[i]

(***************************************************************************)
(* C10.  With several invocations in flight, in any interleaving: no step  *)
(* changes the client once it is constructed; a step of one invocation     *)
(* changes no other; a request's URL is determined by the key and the      *)
(* invocation's own arguments; and an invocation settles with its own      *)
(* validation error or its own transport outcome.                          *)
(***************************************************************************)
C10_CallsIndependent == [][CallsIndependent]_vars

C10_Witness ==
  \E i \in DOMAIN calls, j \in DOMAIN calls :
    /\ i # j
    /\ calls[i].method = calls[j].method
    /\ calls[i].args = calls[j].args
    /\ calls[i].result = [kind |-> "failure", v |-> "ECONNRESET"]
    /\ calls[j].result = [kind |-> "response", v |-> "200 ok"]

====
